---------------------------- MODULE Spec2Model ----------------------------
(***************************************************************************)
(* dockwatch: a model of the TUI session (internal/tui model: New, Update, *)
(* View and the render helpers) and of the Docker CLI provider             *)
(* (internal/dockercli: ListVolumes, GetVolumeDetails, RemoveVolume).      *)
(*                                                                         *)
(* Strings that the code inspects character by character (volume names,   *)
(* container names, the Mounts column) are sequences of one-character      *)
(* strings; every other string is an atom.                                 *)
(*                                                                         *)
(* Spec          the session: New() followed by key events                 *)
(* SpecProvider  the provider: calls of ListVolumes / GetVolumeDetails /   *)
(*               RemoveVolume against a backend, one docker command a step *)
(***************************************************************************)
EXTENDS Integers, Sequences, FiniteSets, TLC

VARIABLES
    \* ---- session (tui.model) ----
    startup,      \* which path New() took: "provFail", "listFail", "ok"
    stdout,       \* what New() printed before the UI started
    active,       \* m.active
    vols,         \* m.vols
    table,        \* m.table : [cursor, focused, cols, rows]
    marked,       \* m.marked, as the set of indices mapped to true
    showDetails,  \* m.showDetails
    provider,     \* m.provider : "docker" or "nil"
    quit,         \* tea.Quit was returned
    lastKey,      \* the key of the last event ("none" before the first)
    calls,        \* the Provider calls the session has made, in order
    \* ---- the size formatters, applied on their own ----
    fmtA,         \* a byte count
    fmtB,         \* another byte count
    fmtOut,       \* <<>>, or what SizeHuman and humanBytes made of both
    \* ---- provider (dockercli.DockerProvider) and its backend ----
    backend,      \* [vols : set of names, containers : listing of docker ps]
    ctxDone,      \* ctx.Done() is closed
    pc,           \* position of the running call
    op,           \* the running call: [name, arg]
    lines,        \* lines of `docker volume ls` still to be processed
    listed,       \* the well-formed names the listing reported, in order
    cur,          \* the line being enriched: [Name, Driver]
    inspected,    \* inspectInfo[0] of the running getVolumeDetails
    volumes,      \* the slice ListVolumes is building
    result,       \* what the call returned: [vols, vol (none or one), err]
    lookupFailed, \* names whose getVolumeDetails returned an error
    psFailed,     \* names for which `docker ps` returned an error
    ctxHit        \* names whose commands failed because ctx was done

sessionVars == <<startup, stdout, active, vols, table, marked, showDetails,
                 provider, quit, lastKey, calls, fmtA, fmtB, fmtOut>>
providerVars == <<backend, ctxDone, pc, op, lines, listed, cur, inspected,
                  volumes, result, lookupFailed, psFailed, ctxHit>>
vars == <<sessionVars, providerVars>>

-----------------------------------------------------------------------------
(* Bounds of the model *)

MaxVols == 2          \* longest snapshot the session starts with
MaxLines == 2         \* most lines in the output of `docker volume ls`
MaxContainers == 2    \* most lines in the output of `docker ps -a`
MaxMounts == 2        \* most volumes one container mounts
FormatSpread == 2     \* byte counts tried on each side of a unit's threshold
MaxViews == 2         \* most renderings of one session

-----------------------------------------------------------------------------
(* Strings *)

\* Volume names; "a" is a substring of "ab".
VolNames == {<<"a">>, <<"a", "b">>, <<"c">>}

\* The Names column of docker ps, with and without a leading slash.
ContainerNames == {<<"/", "w">>, <<"x">>}


Min(a, b) == IF a < b THEN a ELSE b
Max(a, b) == IF a > b THEN a ELSE b

Range(s) == {s[i] : i \in 1..Len(s)}

\* Sequences over S without repetition, of length at most n.
RECURSIVE DistinctSeqs(_, _)
DistinctSeqs(S, n) ==
    IF n = 0 THEN {<<>>}
    ELSE LET shorter == DistinctSeqs(S, n - 1)
         IN  shorter \cup
             UNION {{Append(t, x) : x \in S \ Range(t)} :
                      t \in {u \in shorter : Len(u) = n - 1}}

\* strings.Join(elems, sep) on character sequences.
RECURSIVE Join(_, _)
Join(elems, sep) ==
    IF Len(elems) = 0 THEN <<>>
    ELSE IF Len(elems) = 1 THEN elems[1]
    ELSE elems[1] \o sep \o Join(Tail(elems), sep)

-----------------------------------------------------------------------------
(* domain.Volume *)

\* Volume.SizeHuman, as [unit, whole, tenths]: the unit chosen and the
\* magnitude printed with one fractional digit ("%.1f"; "%d" for bytes).
KB == 1024
MB == 1048576
GB == 1073741824

\* "%.1f" of b/unit for a unit that is a power of two: the quotient is exact
\* in float64, and the digit is rounded to nearest, ties to even. 10*rem/unit
\* is taken as rem/(unit/8) + rem/(unit/2) to keep the numbers small.
OneDecimal(b, unit) ==
    LET whole == b \div unit
        rem == b % unit
        d == unit \div 2
        n == 4 * (rem % (unit \div 8)) + (rem % d)
        floorT == (rem \div (unit \div 8)) + (rem \div d) + (n \div d)
        twice == 2 * (n % d)
        up == twice > d \/ (twice = d /\ floorT % 2 = 1)
        t == 10 * whole + floorT + (IF up THEN 1 ELSE 0)
    IN  [whole |-> t \div 10, tenths |-> t % 10]

\* SizeHuman with > for >=, and SizeHuman with the MB and GB labels swapped.
SizeHumanStrictThreshold(b) ==
    IF b < 0 THEN [unit |-> "?", whole |-> 0, tenths |-> 0]
    ELSE IF b > GB THEN [unit |-> "GB"] @@ OneDecimal(b, GB)
    ELSE IF b > MB THEN [unit |-> "MB"] @@ OneDecimal(b, MB)
    ELSE IF b > KB THEN [unit |-> "KB"] @@ OneDecimal(b, KB)
    ELSE [unit |-> "B", whole |-> b, tenths |-> 0]

SizeHumanSwappedUnits(b) ==
    IF b < 0 THEN [unit |-> "?", whole |-> 0, tenths |-> 0]
    ELSE IF b >= GB THEN [unit |-> "MB"] @@ OneDecimal(b, GB)
    ELSE IF b >= MB THEN [unit |-> "GB"] @@ OneDecimal(b, MB)
    ELSE IF b >= KB THEN [unit |-> "KB"] @@ OneDecimal(b, KB)
    ELSE [unit |-> "B", whole |-> b, tenths |-> 0]

SizeHuman(b) ==
    IF b < 0 THEN [unit |-> "?", whole |-> 0, tenths |-> 0]
    ELSE IF b >= GB THEN [unit |-> "GB"] @@ OneDecimal(b, GB)
    ELSE IF b >= MB THEN [unit |-> "MB"] @@ OneDecimal(b, MB)
    ELSE IF b >= KB THEN [unit |-> "KB"] @@ OneDecimal(b, KB)
    ELSE [unit |-> "B", whole |-> b, tenths |-> 0]

\* humanBytes of the tui package ("%.2f"), as [unit, whole, hundredths].
\* 100*rem/unit is taken as rem/(unit/64) + rem/(unit/32) + rem/(unit/4).
TwoDecimals(b, unit) ==
    LET whole == b \div unit
        rem == b % unit
        d == unit \div 4
        n == 16 * (rem % (unit \div 64)) + 8 * (rem % (unit \div 32))
             + (rem % d)
        floorH == (rem \div (unit \div 64)) + (rem \div (unit \div 32))
                  + (rem \div d) + (n \div d)
        twice == 2 * (n % d)
        up == twice > d \/ (twice = d /\ floorH % 2 = 1)
        h == 100 * whole + floorH + (IF up THEN 1 ELSE 0)
    IN  [whole |-> h \div 100, hundredths |-> h % 100]

humanBytes(b) ==
    IF b <= 0 THEN [unit |-> "B", whole |-> 0, hundredths |-> 0]
    ELSE IF b >= GB THEN [unit |-> "GB"] @@ TwoDecimals(b, GB)
    ELSE IF b >= MB THEN [unit |-> "MB"] @@ TwoDecimals(b, MB)
    ELSE IF b >= KB THEN [unit |-> "KB"] @@ TwoDecimals(b, KB)
    ELSE [unit |-> "B", whole |-> b, hundredths |-> 0]

-----------------------------------------------------------------------------
(* The session: tui.model *)

paneTable == 0
paneDetails == 1
panePlan == 2

\* Height of the table's viewport: table.New is called without WithHeight.
ViewportHeight == 20

\* The snapshots a Provider may hand to New(): volumes with distinct names,
\* each with a size (-1: unknown) and its attachments.
VolumeShapes ==
    {<<-1, <<>>>>, <<0, <<>>>>, <<2048, <<<<"w">>>>>>, <<-1, <<<<"w">>, <<"x">>>>>>}

ProviderVolume(n, s, a) ==
    [Name |-> n, Driver |-> "local", SizeBytes |-> s, Attached |-> a,
     Project |-> "", Orphan |-> (Len(a) = 0)]

Snapshots ==
    UNION {{[i \in 1..Len(ns) |-> ProviderVolume(ns[i], f[i][1], f[i][2])] :
               f \in [1..Len(ns) -> VolumeShapes]} :
             ns \in DistinctSeqs(VolNames, MaxVols)}

Columns == <<"Name", "Size", "Attached", "Project", "Status">>

\* One table row per volume (New, the loop over vols).
Row(v) ==
    [name |-> v.Name,
     size |-> SizeHuman(v.SizeBytes),
     attached |-> IF Len(v.Attached) > 0 THEN Join(v.Attached, <<",">>)
                  ELSE <<"<none>">>,
     project |-> v.Project,
     status |-> IF v.Orphan THEN "ORPHAN" ELSE "ACTIVE"]

\* table.New() without options: no columns, no rows, not focused.
EmptyTable == [cursor |-> 0, focused |-> FALSE, cols |-> <<>>, rows |-> <<>>]

NewTable(vs) ==
    [cursor |-> 0, focused |-> TRUE, cols |-> Columns,
     rows |-> [i \in 1..Len(vs) |-> Row(vs[i])]]

\* New(): the model it returns and what it prints, by the outcome of
\* getDockerProvider and of the first ListVolumes.
New(providerErr, listErr, snapshot) ==
    IF providerErr
    THEN [printed |-> <<"Failed to connect to Docker",
                        "Make sure Docker is running and accessible">>,
          model |-> [active |-> paneTable, vols |-> <<>>,
                     table |-> EmptyTable, marked |-> {},
                     showDetails |-> FALSE, provider |-> "nil"]]
    ELSE LET vs == IF listErr THEN <<>> ELSE snapshot
         IN  [printed |-> IF listErr THEN <<"Failed to load volumes">>
                          ELSE <<>>,
              model |-> [active |-> paneTable, vols |-> vs,
                         table |-> NewTable(vs), marked |-> {},
                         showDetails |-> FALSE, provider |-> "docker"]]

\* The session as one value, as View and the render helpers receive it.
Model ==
    [active |-> active, vols |-> vols, table |-> table, marked |-> marked,
     showDetails |-> showDetails, provider |-> provider]

-----------------------------------------------------------------------------
(* Rendering: View and its helpers, as functions of the model *)

\* renderPlan, the listed lines: the marked rows of vols in index order.
RECURSIVE PlanLines(_, _, _)
PlanLines(vs, mk, i) ==
    IF i >= Len(vs) THEN <<>>
    ELSE (IF i \in mk
          THEN <<[name |-> vs[i + 1].Name,
                  size |-> SizeHuman(vs[i + 1].SizeBytes)]>>
          ELSE <<>>) \o PlanLines(vs, mk, i + 1)

\* renderPlan, the total: sizes of the marked rows that are > 0.
RECURSIVE PlanTotalNoGuard(_, _, _)
PlanTotalNoGuard(vs, mk, i) ==
    IF i >= Len(vs) THEN 0
    ELSE (IF i \in mk THEN vs[i + 1].SizeBytes ELSE 0)
         + PlanTotalNoGuard(vs, mk, i + 1)

RECURSIVE PlanTotal(_, _, _)
PlanTotal(vs, mk, i) ==
    IF i >= Len(vs) THEN 0
    ELSE (IF i \in mk /\ vs[i + 1].SizeBytes > 0 THEN vs[i + 1].SizeBytes
          ELSE 0) + PlanTotal(vs, mk, i + 1)

renderPlan(m) ==
    LET ls == PlanLines(m.vols, m.marked, 0)
    IN  [pane |-> "plan",
         lines |-> IF Len(ls) = 0 THEN <<"<none selected>">> ELSE ls,
         total |-> humanBytes(PlanTotal(m.vols, m.marked, 0)),
         footer |-> "[A] Apply prune   [C] Cancel   [Q] Quit"]

renderDetails(m) ==
    LET idx == m.table.cursor
    IN  IF idx < 0 \/ idx >= Len(m.vols) THEN [pane |-> "blank"]
        ELSE LET v == m.vols[idx + 1]
             IN  [pane |-> "details", name |-> v.Name,
                  size |-> SizeHuman(v.SizeBytes), driver |-> v.Driver,
                  project |-> IF v.Project = "" THEN "<none>" ELSE v.Project,
                  status |-> IF v.Orphan THEN "ORPHAN" ELSE "ACTIVE",
                  attached |-> IF Len(v.Attached) > 0
                               THEN Join(v.Attached, <<",", " ">>)
                               ELSE <<"<none>">>]

helpText == [pane |-> "help"]

\* renderTable: the table widget's view (headers, rows, selected row).
renderTable(m) ==
    [cols |-> m.table.cols, rows |-> m.table.rows,
     selected |-> m.table.cursor]

View(m) ==
    [title |-> "Docker Volumes",
     status |-> Len(m.vols),
     table |-> renderTable(m),
     lower |-> IF m.active = paneDetails THEN renderDetails(m)
               ELSE IF m.active = panePlan THEN renderPlan(m)
               ELSE helpText]

-----------------------------------------------------------------------------
(* Update: one key event *)

\* The key events the model sends. "c" and "a" are the keys the plan pane
\* advertises; the table widget binds the cursor keys.
QuitKeys == {"q", "esc"}
CursorKeys == {"up", "down", "pgup", "pgdown", "home", "end"}
UnboundKeys == {"a", "c"}

\* case "tab": m.active = (m.active + 1) % 3
NextPaneStuck(a) == a
NextPane(a) == (a + 1) % 3

\* case "p": m.active = panePlan
OpenPlanToDetails(a) == paneDetails
OpenPlan(a) == panePlan

\* case " ": m.marked[idx] = !m.marked[idx]
ToggleMarkSetOnly(mk, idx) == mk \cup {idx}
ToggleMark(mk, idx) == IF idx \in mk THEN mk \ {idx} ELSE mk \cup {idx}

\* The table widget's cursor moves: clamp(v, low, high) = min(max(v, low), high).
Clamp(v, low, high) == Min(Max(v, low), high)

MoveUp(t, n) ==
    [t EXCEPT !.cursor = Clamp(t.cursor - n, 0, Len(t.rows) - 1)]

MoveDown(t, n) ==
    [t EXCEPT !.cursor = Clamp(t.cursor + n, 0, Len(t.rows) - 1)]

\* m.table.Update(msg): the key map left by New (LineUp "up", LineDown
\* "down"; the widget's defaults for the rest, where the space bar pages down).
TableUpdate(t, key) ==
    IF ~t.focused THEN t
    ELSE IF key = "up" THEN MoveUp(t, 1)
    ELSE IF key = "down" THEN MoveDown(t, 1)
    ELSE IF key \in {"pgup", "b"} THEN MoveUp(t, ViewportHeight)
    ELSE IF key \in {"pgdown", "f", " "} THEN MoveDown(t, ViewportHeight)
    ELSE IF key \in {"u", "ctrl+u"} THEN MoveUp(t, ViewportHeight \div 2)
    ELSE IF key \in {"d", "ctrl+d"} THEN MoveDown(t, ViewportHeight \div 2)
    ELSE IF key \in {"home", "g"} THEN MoveUp(t, t.cursor)
    ELSE IF key \in {"end", "G"} THEN MoveDown(t, Len(t.rows))
    ELSE t

\* The Provider calls Update makes for a key: Close on quit, nothing else.
ProviderCallsPruneOnPlan(key, m) ==
    IF key \in QuitKeys /\ m.provider # "nil" THEN <<[call |-> "Close"]>>
    ELSE IF key = "p"
    THEN [i \in 1..Len(PlanLines(m.vols, m.marked, 0)) |->
            [call |-> "RemoveVolume",
             name |-> PlanLines(m.vols, m.marked, 0)[i].name]]
    ELSE <<>>

ProviderCalls(key, m) ==
    IF key \in QuitKeys /\ m.provider # "nil" THEN <<[call |-> "Close"]>>
    ELSE <<>>

\* What every key event leaves alone.
Event(key) ==
    /\ ~quit
    /\ lastKey' = key
    /\ calls' = calls \o ProviderCalls(key, Model)
    /\ UNCHANGED <<startup, stdout, vols, provider, providerVars,
                   fmtA, fmtB, fmtOut>>

\* case "q", "esc": close the provider and return tea.Quit; the table is
\* not updated.
KeyQuit ==
    \E key \in QuitKeys :
        /\ Event(key)
        /\ quit' = TRUE
        /\ UNCHANGED <<active, table, marked, showDetails>>

KeyTab ==
    /\ Event("tab")
    /\ active' = NextPane(active)
    /\ table' = TableUpdate(table, "tab")
    /\ UNCHANGED <<marked, showDetails, quit>>

KeyEnter ==
    /\ Event("enter")
    /\ showDetails' = ~showDetails
    /\ table' = TableUpdate(table, "enter")
    /\ UNCHANGED <<active, marked, quit>>

KeyOpenPlan ==
    /\ Event("p")
    /\ active' = OpenPlan(active)
    /\ table' = TableUpdate(table, "p")
    /\ UNCHANGED <<marked, showDetails, quit>>

KeyMark ==
    /\ Event(" ")
    /\ marked' = ToggleMark(marked, table.cursor)
    /\ table' = TableUpdate(table, " ")
    /\ UNCHANGED <<active, showDetails, quit>>

\* Any other key: no case of the switch; the table widget gets the event.
KeyOther ==
    \E key \in CursorKeys \cup UnboundKeys :
        /\ Event(key)
        /\ table' = TableUpdate(table, key)
        /\ UNCHANGED <<active, marked, showDetails, quit>>

Update == KeyQuit \/ KeyTab \/ KeyEnter \/ KeyOpenPlan \/ KeyMark \/ KeyOther

-----------------------------------------------------------------------------
(* The provider at rest, while the session runs *)

NoError == [kind |-> "none", cause |-> "none"]
NoResult == [vols |-> <<>>, vol |-> <<>>, err |-> NoError]
NoCall == [name |-> "none", arg |-> <<>>]
NoLine == [kind |-> "none"]

FormatterAtRest ==
    /\ fmtA = 0
    /\ fmtB = 0
    /\ fmtOut = <<>>

ProviderAtRest ==
    /\ backend = [vols |-> {}, containers |-> <<>>]
    /\ ctxDone = FALSE
    /\ pc = "idle"
    /\ op = NoCall
    /\ lines = <<>>
    /\ listed = <<>>
    /\ cur = NoLine
    /\ inspected = NoLine
    /\ volumes = <<>>
    /\ result = NoResult
    /\ lookupFailed = {}
    /\ psFailed = {}
    /\ ctxHit = {}

Init ==
    /\ \E providerErr \in BOOLEAN, listErr \in BOOLEAN, snapshot \in Snapshots :
          LET new == New(providerErr, listErr, snapshot)
          IN  /\ startup = IF providerErr THEN "provFail"
                           ELSE IF listErr THEN "listFail" ELSE "ok"
              /\ stdout = new.printed
              /\ active = new.model.active
              /\ vols = new.model.vols
              /\ table = new.model.table
              /\ marked = new.model.marked
              /\ showDetails = new.model.showDetails
              /\ provider = new.model.provider
    /\ quit = FALSE
    /\ lastKey = "none"
    /\ calls = <<>>
    /\ FormatterAtRest
    /\ ProviderAtRest

Next == Update

Spec == Init /\ [][Next]_vars

-----------------------------------------------------------------------------
(* The provider: dockercli.DockerProvider and the docker backend *)

\* strings.Contains(s, sub) on character sequences.
Contains(s, sub) ==
    \E i \in 1..(Len(s) - Len(sub) + 1) : SubSeq(s, i, i + Len(sub) - 1) = sub

\* strings.TrimPrefix(s, "/")
TrimSlash(s) == IF Len(s) > 0 /\ s[1] = "/" THEN Tail(s) ELSE s

\* The labels a volume may carry, as the value of com.docker.compose.project.
Projects == {"", "shop"}

\* The backends: the volumes that exist, and the containers `docker ps -a`
\* lists, each with the volumes it mounts (the Mounts column joins them
\* with commas).
ContainersOver(vs) ==
    UNION {{[i \in 1..Len(ns) |-> [Names |-> ns[i], Mounts |-> f[i]]] :
               f \in [1..Len(ns) -> DistinctSeqs(vs, MaxMounts)]} :
             ns \in DistinctSeqs(ContainerNames, MaxContainers)}

Backends ==
    UNION {{[vols |-> vs, containers |-> cs] : cs \in ContainersOver(vs)} :
             vs \in {x \in SUBSET VolNames : Cardinality(x) <= MaxLines}}

VolumeLine(n) == [kind |-> "volume", Name |-> n, Driver |-> "local"]
MalformedLine == [kind |-> "malformed"]
EmptyLine == [kind |-> "empty"]

\* The outputs of `docker volume ls --format {{json .}}`, split into lines:
\* one line per volume, in any order, possibly with a line that does not
\* parse; an empty output splits into one empty line.
Listings(vs) ==
    (IF vs = {} THEN {<<EmptyLine>>} ELSE {}) \cup
    {l \in DistinctSeqs({VolumeLine(n) : n \in vs} \cup {MalformedLine},
                        MaxLines) :
        /\ l # <<>>
        /\ \A n \in vs : VolumeLine(n) \in Range(l)}

WellFormed(ls) == SelectSeq(ls, LAMBDA l : l.kind = "volume")

Err(kind, cause) == [kind |-> kind, cause |-> cause]

\* getContainersUsingVolume, the loop over the lines of docker ps.
AttachedExactMatch(containers, volumeName) ==
    LET using == SelectSeq(containers,
                           LAMBDA c : volumeName \in Range(c.Mounts))
    IN  [i \in 1..Len(using) |-> TrimSlash(using[i].Names)]

getContainersUsingVolume(containers, volumeName) ==
    LET using == SelectSeq(containers,
                   LAMBDA c : Contains(Join(c.Mounts, <<",">>), volumeName))
    IN  [i \in 1..Len(using) |-> TrimSlash(using[i].Names)]

\* getVolumeDetails, the record it builds (lines 127-137): size unknown.
EnrichedVolumeAlwaysOrphan(info, attached, project) ==
    [Name |-> info.Name, Driver |-> info.Driver, SizeBytes |-> -1,
     Attached |-> attached, Project |-> project, Orphan |-> TRUE]

EnrichedVolumeInverted(info, attached, project) ==
    [Name |-> info.Name, Driver |-> info.Driver, SizeBytes |-> -1,
     Attached |-> attached, Project |-> project,
     Orphan |-> (Len(attached) # 0)]

EnrichedVolume(info, attached, project) ==
    [Name |-> info.Name, Driver |-> info.Driver, SizeBytes |-> -1,
     Attached |-> attached, Project |-> project,
     Orphan |-> (Len(attached) = 0)]

\* ListVolumes, the record used when getVolumeDetails fails (lines 69-77).
DegradedVolume(line) ==
    [Name |-> line.Name, Driver |-> line.Driver, SizeBytes |-> -1,
     Attached |-> <<>>, Project |-> "", Orphan |-> TRUE]

\* ListVolumes, lines 66-80: what the slice is after a failed lookup.
AfterFailedLookupDropped(vs, line) == vs
AfterFailedLookup(vs, line) == Append(vs, DegradedVolume(line))

Running == pc \notin {"idle", "done"}

\* A call starts with a context of the caller's, possibly done already.
StartCall(name, arg) ==
    /\ pc = "idle"
    /\ op' = [name |-> name, arg |-> arg]
    /\ ctxDone' \in BOOLEAN
    /\ UNCHANGED <<sessionVars, backend, lines, listed, inspected, volumes,
                   result, lookupFailed, psFailed, ctxHit>>

CallListVolumes ==
    /\ StartCall("ListVolumes", <<>>)
    /\ pc' = "list"
    /\ cur' = cur

CallGetVolumeDetails ==
    \E n \in VolNames :
        /\ StartCall("GetVolumeDetails", n)
        /\ pc' = "inspect"
        /\ cur' = VolumeLine(n)

CallRemoveVolume ==
    \E n \in VolNames :
        /\ StartCall("RemoveVolume", n)
        /\ pc' = "rm"
        /\ cur' = VolumeLine(n)

\* The caller cancels the context, or its deadline passes, while the call
\* is between two commands.
CtxCancel ==
    /\ Running
    /\ ~ctxDone
    /\ ctxDone' = TRUE
    /\ UNCHANGED <<sessionVars, backend, pc, op, lines, listed, cur, inspected,
                   volumes, result, lookupFailed, psFailed, ctxHit>>

\* How a command run with exec.CommandContext ends: "ctx" when the context
\* is done before it starts or while it runs (the process is killed),
\* otherwise as the backend answers.
Outcomes(answers) == IF ctxDone THEN {"ctx"} ELSE answers \cup {"ctx"}

\* ListVolumes, lines 41-48: docker volume ls.
ListExec ==
    /\ pc = "list"
    /\ \E how \in Outcomes({"ok", "fail"}) :
          IF how = "ok"
          THEN /\ \E out \in Listings(backend.vols) :
                     /\ lines' = out
                     /\ listed' = [i \in 1..Len(WellFormed(out)) |->
                                     WellFormed(out)[i].Name]
               /\ pc' = "loop"
               /\ UNCHANGED <<ctxDone, result, ctxHit>>
          ELSE /\ result' = [vols |-> <<>>, vol |-> <<>>,
                             err |-> Err("list", IF how = "ctx" THEN "ctx"
                                                 ELSE "exec")]
               /\ pc' = "done"
               /\ ctxDone' = (ctxDone \/ how = "ctx")
               /\ ctxHit' = IF how = "ctx" THEN ctxHit \cup {"ls"} ELSE ctxHit
               /\ UNCHANGED <<lines, listed>>
    /\ UNCHANGED <<sessionVars, backend, op, cur, inspected, volumes,
                   lookupFailed, psFailed>>

\* ListVolumes, lines 51-63: the next line; an empty or malformed one is
\* skipped.
NextLine ==
    /\ pc = "loop"
    /\ lines # <<>>
    /\ lines' = Tail(lines)
    /\ IF Head(lines).kind = "volume"
       THEN cur' = Head(lines) /\ pc' = "inspect"
       ELSE UNCHANGED <<cur, pc>>
    /\ UNCHANGED <<sessionVars, backend, ctxDone, op, listed, inspected,
                   volumes, result, lookupFailed, psFailed, ctxHit>>

\* getVolumeDetails returned an error: ListVolumes degrades the volume and
\* goes on, GetVolumeDetails returns the error.
LookupFailed(err) ==
    /\ lookupFailed' = lookupFailed \cup {cur.Name}
    /\ IF op.name = "ListVolumes"
       THEN /\ volumes' = AfterFailedLookup(volumes, cur)
            /\ pc' = "loop"
            /\ UNCHANGED result
       ELSE /\ result' = [vols |-> <<>>, vol |-> <<>>, err |-> err]
            /\ pc' = "done"
            /\ UNCHANGED volumes

\* getVolumeDetails, lines 93-113: docker volume inspect <name>.
Inspect ==
    /\ pc = "inspect"
    /\ \E how \in Outcomes(IF cur.Name \in backend.vols
                           THEN {"ok", "fail", "unparsable", "empty"}
                           ELSE {"fail"}) :
          /\ ctxDone' = (ctxDone \/ how = "ctx")
          /\ ctxHit' = IF how = "ctx" THEN ctxHit \cup {cur.Name} ELSE ctxHit
          /\ IF how = "ok"
             THEN /\ \E project \in Projects :
                        inspected' = [Name |-> cur.Name, Driver |-> cur.Driver,
                                      Project |-> project]
                  /\ pc' = "ps"
                  /\ UNCHANGED <<volumes, result, lookupFailed>>
             ELSE /\ LookupFailed(
                        IF how = "ctx" THEN Err("inspect", "ctx")
                        ELSE IF how = "fail" THEN Err("inspect", "exec")
                        ELSE IF how = "unparsable" THEN Err("parse", "none")
                        ELSE Err("notfound", "none"))
                  /\ UNCHANGED inspected
    /\ UNCHANGED <<sessionVars, backend, op, lines, listed, cur, psFailed>>

\* getVolumeDetails, lines 115-139: docker ps -a, then the record. A failure
\* of docker ps leaves the volume without attachments.
Ps ==
    /\ pc = "ps"
    /\ \E how \in Outcomes({"ok", "fail"}) :
          LET attached == IF how = "ok"
                          THEN getContainersUsingVolume(backend.containers,
                                                        cur.Name)
                          ELSE <<>>
              v == EnrichedVolume(inspected, attached, inspected.Project)
          IN  /\ ctxDone' = (ctxDone \/ how = "ctx")
              /\ ctxHit' = IF how = "ctx" THEN ctxHit \cup {cur.Name}
                           ELSE ctxHit
              /\ psFailed' = IF how = "ok" THEN psFailed
                             ELSE psFailed \cup {cur.Name}
              /\ IF op.name = "ListVolumes"
                 THEN /\ volumes' = Append(volumes, v)
                      /\ pc' = "loop"
                      /\ UNCHANGED result
                 ELSE /\ result' = [vols |-> <<>>, vol |-> <<v>>, err |-> NoError]
                      /\ pc' = "done"
                      /\ UNCHANGED volumes
    /\ UNCHANGED <<sessionVars, backend, op, lines, listed, cur, inspected,
                   lookupFailed>>

\* ListVolumes, line 83: return volumes, nil.
ListReturn ==
    /\ pc = "loop"
    /\ lines = <<>>
    /\ result' = [vols |-> volumes, vol |-> <<>>, err |-> NoError]
    /\ pc' = "done"
    /\ UNCHANGED <<sessionVars, backend, ctxDone, op, lines, listed, cur,
                   inspected, volumes, lookupFailed, psFailed, ctxHit>>

\* RemoveVolume: docker volume rm <name>; the command's error is returned.
\* The backend refuses a volume that a container mounts or that is unknown.
RemoveVolume ==
    /\ pc = "rm"
    /\ LET inUse == \E i \in 1..Len(backend.containers) :
                       cur.Name \in Range(backend.containers[i].Mounts)
           answer == IF cur.Name \notin backend.vols THEN "notfound"
                     ELSE IF inUse THEN "inuse" ELSE "ok"
       IN  \E how \in Outcomes({answer}) :
              /\ ctxDone' = (ctxDone \/ how = "ctx")
              /\ ctxHit' = IF how = "ctx" THEN ctxHit \cup {cur.Name}
                           ELSE ctxHit
              /\ backend' = IF how = "ok"
                            THEN [backend EXCEPT !.vols = @ \ {cur.Name}]
                            ELSE backend
              /\ result' = [vols |-> <<>>, vol |-> <<>>,
                            err |-> IF how = "ok" THEN NoError
                                    ELSE Err("rm", IF how = "ctx" THEN "ctx"
                                                   ELSE how)]
    /\ pc' = "done"
    /\ UNCHANGED <<sessionVars, op, lines, listed, cur, inspected, volumes,
                   lookupFailed, psFailed>>

\* The session is not running while the provider is exercised on its own.
SessionIdle ==
    /\ startup = "ok"
    /\ stdout = <<>>
    /\ active = paneTable
    /\ vols = <<>>
    /\ table = NewTable(<<>>)
    /\ marked = {}
    /\ showDetails = FALSE
    /\ provider = "docker"
    /\ quit = FALSE
    /\ lastKey = "none"
    /\ calls = <<>>

SessionAtRest == SessionIdle /\ FormatterAtRest

InitProvider ==
    /\ SessionAtRest
    /\ backend \in Backends
    /\ ctxDone = FALSE
    /\ pc = "idle"
    /\ op = NoCall
    /\ lines = <<>>
    /\ listed = <<>>
    /\ cur = NoLine
    /\ inspected = NoLine
    /\ volumes = <<>>
    /\ result = NoResult
    /\ lookupFailed = {}
    /\ psFailed = {}
    /\ ctxHit = {}

NextProvider ==
    \/ CallListVolumes
    \/ CallGetVolumeDetails
    \/ CallRemoveVolume
    \/ CtxCancel
    \/ ListExec
    \/ NextLine
    \/ Inspect
    \/ Ps
    \/ ListReturn
    \/ RemoveVolume

SpecProvider == InitProvider /\ [][NextProvider]_vars

-----------------------------------------------------------------------------
(* Rendering as a step of the session *)

\* renderTable, lines 176-184: rows is the slice the table widget holds
\* (Rows() returns it without copying), and the loop writes the checkbox
\* in front of the first cell of every row (the check mark is written x).
DecorateRows(rows, mk) ==
    [i \in 1..Len(rows) |->
        [rows[i] EXCEPT !.name =
            <<"[", IF (i - 1) \in mk THEN "x" ELSE " ", "]", " ">> \o @]]

\* How often the rows have been decorated: four characters a time.
Decorations ==
    IF Len(table.rows) = 0 THEN 0
    ELSE (Len(table.rows[1].name) - Len(vols[1].Name)) \div 4

\* View(): the program renders the model; renderTable runs first.
ViewStep ==
    /\ ~quit
    /\ Decorations < MaxViews
    /\ table' = [table EXCEPT !.rows = DecorateRows(table.rows, marked)]
    /\ UNCHANGED <<startup, stdout, active, vols, marked, showDetails,
                   provider, quit, lastKey, calls, fmtA, fmtB, fmtOut,
                   providerVars>>

NextView == Update \/ ViewStep

SpecView == Init /\ [][NextView]_vars

-----------------------------------------------------------------------------
(* The size formatters on their own *)

\* Byte counts around 0 and around each unit's threshold, the examples of
\* the documentation, two ties of the rounding, and the largest count the
\* checker's integers hold (SizeBytes is an int64; every larger count is
\* above the GB threshold too).
FormatInputs ==
    UNION {(c - FormatSpread)..(c + FormatSpread) : c \in {0, KB, MB, GB}}
        \cup {1280, 1536, 1792, 2048, 2147483647}

\* v.SizeHuman() and humanBytes(b), applied to two byte counts.
FormatSizes ==
    /\ fmtOut = <<>>
    /\ fmtOut' = <<[a |-> SizeHuman(fmtA), b |-> SizeHuman(fmtB),
                    ta |-> humanBytes(fmtA), tb |-> humanBytes(fmtB)]>>
    /\ UNCHANGED <<startup, stdout, active, vols, table, marked, showDetails,
                   provider, quit, lastKey, calls, fmtA, fmtB, providerVars>>

InitFormat ==
    /\ SessionIdle
    /\ ProviderAtRest
    /\ fmtA \in FormatInputs
    /\ fmtB \in FormatInputs
    /\ fmtOut = <<>>

NextFormat == FormatSizes

SpecFormat == InitFormat /\ [][NextFormat]_vars

-----------------------------------------------------------------------------
(* Properties of the session, checked under Spec *)

\* The rows of the snapshot that are marked (marks outside the snapshot
\* designate no volume).
MarkedRows == {i \in 0..(Len(vols) - 1) : i \in marked}

\* The marked rows in ascending order.
Ascending(S) ==
    CHOOSE f \in [1..Cardinality(S) -> S] :
        \A a, b \in 1..Cardinality(S) : a < b => f[a] < f[b]

RECURSIVE SumKnownSizes(_)
SumKnownSizes(S) ==
    IF S = {} THEN 0
    ELSE LET i == CHOOSE x \in S : TRUE
         IN  (IF vols[i + 1].SizeBytes >= 0 THEN vols[i + 1].SizeBytes ELSE 0)
             + SumKnownSizes(S \ {i})

\* C1: in every reachable state the prune plan lists exactly the volumes at
\* the marked row indices, in ascending index order (a volume of unknown
\* size, -1, included), and its total is the sum of SizeBytes over the marked
\* volumes with SizeBytes >= 0, so an unknown size contributes 0.
C1_PlanListsMarkedAndSumsKnown ==
    LET ls == PlanLines(vols, marked, 0)
        idx == Ascending(MarkedRows)
    IN  /\ Len(ls) = Cardinality(MarkedRows)
        /\ \A k \in 1..Len(ls) :
              /\ ls[k].name = vols[idx[k] + 1].Name
              /\ ls[k].size = SizeHuman(vols[idx[k] + 1].SizeBytes)
        /\ PlanTotal(vols, marked, 0) = SumKnownSizes(MarkedRows)
        /\ renderPlan(Model).total = humanBytes(SumKnownSizes(MarkedRows))
        /\ (ls # <<>> => renderPlan(Model).lines = ls)

\* C1 witness: the plan pane is open with two rows marked, one of unknown
\* size and one of 2048 bytes.
C1_Witness ==
    /\ active = panePlan
    /\ Cardinality(MarkedRows) = 2
    /\ \E i, j \in MarkedRows :
          vols[i + 1].SizeBytes = -1 /\ vols[j + 1].SizeBytes = 2048
    /\ PlanTotal(vols, marked, 0) = 2048

RemoveCalls(cs) == SelectSeq(cs, LAMBDA c : c.call = "RemoveVolume")

\* C4 (as claimed): once the operator confirms the plan with the advertised
\* apply key, RemoveVolume has been called for every marked volume.
C4_ApplyRemovesEachMarked ==
    lastKey = "a" =>
        \A i \in MarkedRows :
            \E k \in 1..Len(calls) :
                /\ calls[k].call = "RemoveVolume"
                /\ calls[k].name = vols[i + 1].Name

\* C5: a step that makes a RemoveVolume call is the apply confirmation; no
\* mark, cursor, pane, details or open-plan event makes one.
C5_DryRunSafety ==
    [][RemoveCalls(calls') # RemoveCalls(calls) => lastKey' = "a"]_vars

\* C5 witness: rows are marked and the plan has just been opened, and no
\* removal has been requested.
C5_Witness ==
    /\ lastKey = "p"
    /\ active = panePlan
    /\ MarkedRows # {}
    /\ RemoveCalls(calls) = <<>>

\* C7 (as claimed): right after New() a failed startup shows the operator
\* something else than a successful startup with zero volumes does.
C7_FailureVisible ==
    (lastKey = "none" /\ startup # "ok") =>
        View(Model) # View(New(FALSE, FALSE, <<>>).model)

\* C10 (as claimed): Enter switches the active pane from Table to Details
\* and from Details back to Table.
C10_EnterTogglesDetails ==
    [][lastKey' = "enter" =>
         /\ (active = paneTable => active' = paneDetails)
         /\ (active = paneDetails => active' = paneTable)]_vars

Panes == {paneTable, paneDetails, panePlan}

\* C11: Tab moves the active pane Table -> Details -> Plan -> Table, so
\* three Tab events in a row lead back to the starting pane, and Tab leaves
\* the cursor, the marked set and the snapshot as they were.
C11_TabCyclesPanes ==
    [][lastKey' = "tab" =>
         /\ (active = paneTable => active' = paneDetails)
         /\ (active = paneDetails => active' = panePlan)
         /\ (active = panePlan => active' = paneTable)
         /\ NextPane(NextPane(active')) = active
         /\ table'.cursor = table.cursor
         /\ marked' = marked
         /\ vols' = vols]_vars

\* C11 witness: Tab has just wrapped around from Plan to Table, with a row
\* marked and the cursor off the first row.
C11_Witness ==
    /\ lastKey = "tab"
    /\ active = paneTable
    /\ MarkedRows # {}
    /\ table.cursor > 0

\* C12: P makes Plan the active pane whatever the state before, and the
\* active pane is always one of Table, Details, Plan.
C12_OpenPlanForcesPlan ==
    /\ [](active \in Panes)
    /\ [][lastKey' = "p" => active' = panePlan]_vars

\* C12 witness: P was pressed after Enter had flipped the details flag, and
\* the plan pane is active.
C12_Witness ==
    /\ lastKey = "p"
    /\ active = panePlan
    /\ showDetails

\* C13: a Space event flips the membership of the index under the cursor and
\* of no other index, and toggling the same index once more gives back the
\* marked set from before the event.
C13_ToggleTwiceRestores ==
    [][lastKey' = " " =>
         LET i == table.cursor
         IN  /\ (i \in marked') = (i \notin marked)
             /\ \A j \in (marked \cup marked') \ {i} :
                    (j \in marked') = (j \in marked)
             /\ ToggleMark(marked', i) = marked
             /\ ToggleMark(ToggleMark(marked, i), i) = marked]_vars

\* C13 witness: Space has just unmarked the only marked row of a non-empty
\* snapshot, so the row was toggled twice.
C13_Witness ==
    /\ lastKey = " "
    /\ Len(vols) > 0
    /\ marked = {}

\* C14 (as claimed): every marked index is a row of the snapshot; with an
\* empty snapshot nothing is marked.
C14_MarksInsideSnapshot ==
    \A i \in marked : 0 <= i /\ i < Len(vols)

\* The state handed to Update, read after Update has returned. Update has a
\* value receiver, so the caller keeps its own copies of the scalar fields;
\* marked is a map, which the copy shares with the model that is returned.
InputAfterUpdate ==
    [active |-> active, vols |-> vols, table |-> table, marked |-> marked',
     showDetails |-> showDetails, provider |-> provider]

\* C19 (as claimed): Update leaves the state it was given unchanged, its
\* marked set included, for every event.
C19_UpdateIsPure ==
    [][InputAfterUpdate = Model]_vars

\* C20 (as claimed): a Space event changes the membership of the row under
\* the cursor and nothing else: cursor, pane and snapshot stay.
C20_MarkChangesOnlyMark ==
    [][lastKey' = " " =>
         /\ table'.cursor = table.cursor
         /\ active' = active
         /\ vols' = vols
         /\ marked' = ToggleMark(marked, table.cursor)]_vars

\* C18 (as claimed), checked under SpecView: rendering leaves the session
\* as it was, the table's row data included.
C18_ViewReadOnly ==
    [][ViewStep => UNCHANGED <<active, vols, table, marked, showDetails,
                               provider>>]_vars

-----------------------------------------------------------------------------
(* Properties of the size formatters, checked under SpecFormat *)

Units == <<"B", "KB", "MB", "GB">>
UnitSize == [u \in Range(Units) |->
               IF u = "B" THEN 1 ELSE IF u = "KB" THEN KB
               ELSE IF u = "MB" THEN MB ELSE GB]
UnitRank(u) == CHOOSE k \in 1..Len(Units) : Units[k] = u

\* The largest unit in which a positive byte count has magnitude >= 1.
LargestUnit(bytes) ==
    CHOOSE u \in Range(Units) :
        /\ bytes >= UnitSize[u]
        /\ \A w \in Range(Units) :
              bytes >= UnitSize[w] => UnitSize[w] <= UnitSize[u]

\* C15: SizeHuman gives "?" below zero and "0 B" at zero, and above zero the
\* largest of B, KB, MB, GB in which the magnitude is at least 1; 1536 is
\* "1.5 KB", 2048 is "2.0 KB" and 1073741824 is "1.0 GB".
C15_LargestUnit ==
    fmtOut # <<>> =>
        LET r == fmtOut[1].a
        IN  /\ (fmtA < 0 => r.unit = "?")
            /\ (fmtA = 0 => r = [unit |-> "B", whole |-> 0, tenths |-> 0])
            /\ (fmtA > 0 => r.unit = LargestUnit(fmtA))
            /\ (fmtA = 1536 => r = [unit |-> "KB", whole |-> 1, tenths |-> 5])
            /\ (fmtA = 2048 => r = [unit |-> "KB", whole |-> 2, tenths |-> 0])
            /\ (fmtA = GB => r = [unit |-> "GB", whole |-> 1, tenths |-> 0])

\* C15 witness: a count exactly at a threshold has been formatted in the
\* unit of that threshold.
C15_Witness ==
    /\ fmtOut # <<>>
    /\ fmtA = KB
    /\ fmtOut[1].a.unit = "KB"

\* C16: for 0 <= a < b the unit chosen for b is not smaller than the one
\* chosen for a, by SizeHuman and by humanBytes alike.
C16_UnitMonotonic ==
    (fmtOut # <<>> /\ 0 <= fmtA /\ fmtA < fmtB) =>
        /\ UnitRank(fmtOut[1].a.unit) <= UnitRank(fmtOut[1].b.unit)
        /\ UnitRank(fmtOut[1].ta.unit) <= UnitRank(fmtOut[1].tb.unit)

\* C16 witness: a count in the MB range and a larger one in the GB range
\* have been formatted.
C16_Witness ==
    /\ fmtOut # <<>>
    /\ fmtA = GB - 1
    /\ fmtB = GB
    /\ fmtOut[1].a.unit = "MB"
    /\ fmtOut[1].b.unit = "GB"

-----------------------------------------------------------------------------
(* Properties of the provider, checked under SpecProvider *)

\* Every Volume a call has produced so far or returned.
Produced ==
    Range(volumes) \cup Range(result.vols)
        \cup Range(result.vol)

ListVolumesDone == pc = "done" /\ op.name = "ListVolumes"

\* C2: every Volume built by ListVolumes or GetVolumeDetails, enriched or
\* degraded, has Orphan exactly when it has no attachments.
C2_OrphanIffNoAttachments ==
    \A v \in Produced : v.Orphan = (Len(v.Attached) = 0)

\* C2 witness: a finished ListVolumes holds an enriched volume with an
\* attachment and a degraded one, and a finished GetVolumeDetails case is
\* covered by the same invariant.
C2_Witness ==
    /\ ListVolumesDone
    /\ \E v \in Range(result.vols) :
          v.Name \notin lookupFailed /\ Len(v.Attached) > 0 /\ ~v.Orphan
    /\ \E v \in Range(result.vols) : v.Name \in lookupFailed /\ v.Orphan

\* C3: a ListVolumes call whose listing succeeded returns no error and a
\* snapshot that holds every listed volume exactly once, in listing order;
\* a volume whose detail lookup failed is there with SizeBytes = -1, no
\* attachments and Orphan set.
C3_DegradeNotDrop ==
    (ListVolumesDone /\ result.err.kind # "list") =>
        /\ result.err = NoError
        /\ [i \in 1..Len(result.vols) |-> result.vols[i].Name] = listed
        /\ Range(listed) = backend.vols
        /\ Len(result.vols) = Cardinality(backend.vols)
        /\ \A i \in 1..Len(result.vols) :
              result.vols[i].Name \in lookupFailed =>
                  /\ result.vols[i].SizeBytes = -1
                  /\ result.vols[i].Attached = <<>>
                  /\ result.vols[i].Orphan

\* C3 witness: two volumes were listed, the lookup of one failed, and both
\* are in the returned snapshot.
C3_Witness ==
    /\ ListVolumesDone
    /\ result.err = NoError
    /\ Len(result.vols) = 2
    /\ Cardinality(lookupFailed) = 1

\* C8 (as claimed): a ListVolumes call during which a command failed on the
\* cancelled context returns an error that carries the cancellation, never
\* a successful snapshot.
C8_CancelledSurfaced ==
    (ListVolumesDone /\ ctxHit # {}) =>
        /\ result.err # NoError
        /\ result.err.cause = "ctx"

\* C9 (as claimed): where docker ps answered, Attached holds exactly the
\* containers whose mounts include the volume name as an element, in the
\* order of the listing.
C9_AttachedExactly ==
    \A v \in Produced :
        v.Name \notin (lookupFailed \cup psFailed) =>
            v.Attached = AttachedExactMatch(backend.containers, v.Name)

\* C17: when docker ps fails or lists no container, the volume is still
\* returned, without attachments and as an orphan: GetVolumeDetails returns
\* it with no error, ListVolumes has it in the snapshot.
C17_NoContainersMeansOrphan ==
    /\ \A v \in Produced :
          (v.Name \notin lookupFailed
             /\ (v.Name \in psFailed \/ backend.containers = <<>>)) =>
              v.Attached = <<>> /\ v.Orphan
    /\ (pc = "done" /\ op.name = "GetVolumeDetails"
          /\ (op.arg \in psFailed
                \/ (backend.containers = <<>> /\ op.arg \notin lookupFailed))) =>
          /\ result.err = NoError
          /\ Len(result.vol) = 1
          /\ result.vol[1].Name = op.arg
    /\ (ListVolumesDone /\ result.err.kind # "list") =>
          \A n \in psFailed : \E i \in 1..Len(result.vols) :
              result.vols[i].Name = n /\ result.vols[i].Orphan

\* C17 witness: GetVolumeDetails has returned a volume for which docker ps
\* failed although a container mounts it.
C17_Witness ==
    /\ pc = "done"
    /\ op.name = "GetVolumeDetails"
    /\ op.arg \in psFailed
    /\ \E i \in 1..Len(backend.containers) :
          op.arg \in Range(backend.containers[i].Mounts)
    /\ Len(result.vol) = 1
    /\ result.vol[1].Orphan

=============================================================================
